---- MODULE Spec2Model ----
(***************************************************************************)
(* gen_lib_tables.py: generation of KiCad's sym-lib-table and fp-lib-table *)
(* from a directory tree.  Python's str is modelled as a sequence of       *)
(* one-character strings, a pathlib.Path as a record [abs, parts], a dict  *)
(* as a function, and main() as a process whose position is pc.            *)
(***************************************************************************)
EXTENDS Integers, Sequences, FiniteSets, TLC

VARIABLES tree, args, pc, sym_files, pretty_dirs, sym_content, fp_content,
          exc, files, files0, stdout, stderr, exit_status, runs,
          last_sym, last_fp, esc_pc, esc_in, esc_out, esc_line

vars == <<tree, args, pc, sym_files, pretty_dirs, sym_content, fp_content,
          exc, files, files0, stdout, stderr, exit_status, runs,
          last_sym, last_fp, esc_pc, esc_in, esc_out, esc_line>>

(* Bounds of the model. *)
\* discovered entries (files and directories) in one tree, besides the scan directories
MaxEntries == 3
\* runs of main on the same tree
MaxRuns == 2
\* length of the strings kicad_escape is applied to on its own
MaxLen == 4

\* Python's None, and a value that is present: an optional value is a sequence
\* of length 0 or 1
None == <<>>
Some(x) == <<x>>
Get(opt) == opt[1]

(***************************************************************************)
(* str                                                                     *)
(***************************************************************************)
\* the printable ASCII characters in code point order, from " " (32) to "~" (126)
\* (the grave accent, 96, is written "U+0060")
Ascii ==
  <<" ", "!", "\"", "#", "$", "%", "&", "'", "(", ")", "*", "+", ",", "-", ".", "/", "0", "1", "2", "3", "4", "5", "6", "7", "8", "9", ":", ";", "<", "=", ">", "?">>
  \o <<"@", "A", "B", "C", "D", "E", "F", "G", "H", "I", "J", "K", "L", "M", "N", "O", "P", "Q", "R", "S", "T", "U", "V", "W", "X", "Y", "Z", "[", "\\", "]", "^", "_">>
  \o <<"U+0060">>
  \o <<"a", "b", "c", "d", "e", "f", "g", "h", "i", "j", "k", "l", "m", "n", "o", "p", "q", "r", "s", "t", "u", "v", "w", "x", "y", "z", "{", "|", "}", "~">>

Chars == {Ascii[i] : i \in 1..Len(Ascii)} \cup {"\n"}

\* ord(c)
Ord == [c \in Chars |-> IF c = "\n" THEN 10 ELSE 31 + (CHOOSE i \in 1..Len(Ascii) : Ascii[i] = c)]

\* c.lower() for one character
LowerChar == [c \in Chars |-> IF Ord[c] >= 65 /\ Ord[c] <= 90 THEN Ascii[Ord[c] + 32 - 31] ELSE c]

\* s.lower()
Lower(s) == [i \in 1..Len(s) |-> LowerChar[s[i]]]

\* s < t, Python's comparison of two str: lexicographic by code point
RECURSIVE StrLess(_, _)
StrLess(s, t) ==
  IF t = <<>> THEN FALSE
  ELSE IF s = <<>> THEN TRUE
  ELSE IF s[1] # t[1] THEN Ord[s[1]] < Ord[t[1]]
  ELSE StrLess(Tail(s), Tail(t))

\* s.replace(old, new) for a one-character old
RECURSIVE Replace(_, _, _)
Replace(s, old, new) ==
  IF s = <<>> THEN <<>>
  ELSE (IF s[1] = old THEN new ELSE <<s[1]>>) \o Replace(Tail(s), old, new)

\* s.endswith(suffix)
EndsWith(s, suffix) ==
  /\ Len(s) >= Len(suffix)
  /\ SubSeq(s, Len(s) - Len(suffix) + 1, Len(s)) = suffix

\* sep.join(strs)
RECURSIVE Join(_, _)
Join(sep, strs) ==
  IF strs = <<>> THEN <<>>
  ELSE IF Len(strs) = 1 THEN strs[1]
  ELSE strs[1] \o sep \o Join(sep, Tail(strs))

\* s.rstrip("\n")
RECURSIVE RStripNewline(_)
RStripNewline(s) ==
  IF s # <<>> /\ s[Len(s)] = "\n" THEN RStripNewline(SubSeq(s, 1, Len(s) - 1)) ELSE s

(***************************************************************************)
(* pathlib.Path                                                            *)
(***************************************************************************)
\* an absolute path /c1/c2/...
AbsPath(parts) == [abs |-> TRUE, parts |-> parts]

\* p / name
Child(p, name) == [abs |-> p.abs, parts |-> Append(p.parts, name)]

\* p.parent
Parent(p) ==
  IF p.parts = <<>> THEN p
  ELSE [abs |-> p.abs, parts |-> SubSeq(p.parts, 1, Len(p.parts) - 1)]

\* p.name
Name(p) == IF p.parts = <<>> THEN <<>> ELSE p.parts[Len(p.parts)]

\* p.as_posix()
AsPosix(p) ==
  IF p.abs THEN <<"/">> \o Join(<<"/">>, p.parts)
  ELSE IF p.parts = <<>> THEN <<".">>
  ELSE Join(<<"/">>, p.parts)

\* p.stem: the name without its last suffix
Stem(p) ==
  LET name == Name(p)
      dots == {i \in 1..Len(name) : name[i] = "."}
      j    == IF dots = {} THEN 0 ELSE CHOOSE i \in dots : \A k \in dots : k <= i
  IN IF 1 < j /\ j < Len(name) THEN SubSeq(name, 1, j - 1) ELSE name

\* whether p.relative_to(other) succeeds
IsRelativeTo(p, other) ==
  /\ p.abs = other.abs
  /\ Len(other.parts) <= Len(p.parts)
  /\ SubSeq(p.parts, 1, Len(other.parts)) = other.parts

ValueError == "ValueError"

\* p.relative_to(other)
RelativeTo(p, other) ==
  IF IsRelativeTo(p, other)
  THEN [abs |-> FALSE, parts |-> SubSeq(p.parts, Len(other.parts) + 1, Len(p.parts))]
  ELSE ValueError

(***************************************************************************)
(* The module's constants and serialization                                *)
(***************************************************************************)
SYM_HEADER == <<"(", "s", "y", "m", "_", "l", "i", "b", "_", "t", "a", "b", "l", "e", "\n", " ", " ", "(", "v", "e", "r", "s", "i", "o", "n", " ", "7", ")", "\n">>
FP_HEADER == <<"(", "f", "p", "_", "l", "i", "b", "_", "t", "a", "b", "l", "e", "\n", " ", " ", "(", "v", "e", "r", "s", "i", "o", "n", " ", "7", ")", "\n">>
FOOTER == <<")", "\n">>

SwappedEscape(s) == Replace(Replace(s, "\"", <<"\\", "\"">>), "\\", <<"\\", "\\">>)

kicad_escape(s) == Replace(Replace(s, "\\", <<"\\", "\\">>), "\"", <<"\\", "\"">>)

make_lib_line(name, uri) ==
  <<" ", " ", "(", "l", "i", "b", " ", "(", "n", "a", "m", "e", " ", "\"">> \o kicad_escape(name) \o <<"\"", ")">>
  \o <<"(", "t", "y", "p", "e", " ", "\"", "K", "i", "C", "a", "d", "\"", ")">>
  \o <<"(", "u", "r", "i", " ", "\"">> \o kicad_escape(uri) \o <<"\"", ")">>
  \o <<"(", "o", "p", "t", "i", "o", "n", "s", " ", "\"", "\"", ")">>
  \o <<"(", "d", "e", "s", "c", "r", " ", "\"", "\"", ")", ")">>

\* lines 78-83: the suffix of a colliding name, without the replacement of "\"
SuffixKeepsBackslash(p, root) ==
  LET parent_rel == IF IsRelativeTo(Parent(p), root)
                    THEN AsPosix(RelativeTo(Parent(p), root))
                    ELSE AsPosix(Parent(p))
  IN Replace(parent_rel, "/", <<"_">>)

\* lines 78-83: the suffix of a colliding name, from the parent directory of p
Suffix(p, root) ==
  LET parent_rel == IF IsRelativeTo(Parent(p), root)
                    THEN AsPosix(RelativeTo(Parent(p), root))
                    ELSE AsPosix(Parent(p))
  IN Replace(Replace(parent_rel, "/", <<"_">>), "\\", <<"_">>)

\* the empty dict
EmptyDict == [k \in {} |-> 0]

\* d[k] = v
DictSet(d, k, v) == (k :> v) @@ d

\* the dict `result` of make_unique_names: the fold of lines 71-85 over paths
\* (base_name_func, a lambda in the code, is a function on the paths)
make_unique_names(paths, base_name_func, root) ==
  LET fold[i \in 0..Len(paths)] ==
        IF i = 0 THEN [seen |-> EmptyDict, result |-> EmptyDict]
        ELSE LET prev == fold[i - 1]
                 p    == paths[i]
                 base == base_name_func[p]
             IN IF base \notin DOMAIN prev.seen
                THEN [seen   |-> DictSet(prev.seen, base, 1),
                      result |-> DictSet(prev.result, p, base)]
                ELSE [seen   |-> DictSet(prev.seen, base, prev.seen[base] + 1),
                      result |-> DictSet(prev.result, p,
                                         base \o <<"_">> \o Suffix(p, root))]
  IN fold[Len(paths)].result

(***************************************************************************)
(* The file system                                                         *)
(***************************************************************************)
\* Path(__file__).resolve()
script_path == AbsPath(<<<<"p">>, <<"k">>, <<"g", "e", "n", "_", "l", "i", "b", "_", "t", "a", "b", "l", "e", "s", ".", "p", "y">>>>)
submodule_dir == Parent(script_path)
project_root == Parent(submodule_dir)
symbols_dir == Child(submodule_dir, <<"s", "y", "m", "b", "o", "l", "s">>)
footprints_dir == Child(submodule_dir, <<"f", "o", "o", "t", "p", "r", "i", "n", "t", "s">>)

Node(path, is_dir) == [path |-> path, is_dir |-> is_dir]

\* the directories below a scan directory that the trees of the model use
ScanSubdirs == {<<>>, <<<<"x">>>>, <<<<"X">>>>, <<<<"x", "_">>>>, <<<<"x", "\\">>>>}

Below(dir, sub, name) == [abs |-> dir.abs, parts |-> dir.parts \o sub \o <<name>>]

\* the entries a tree of the model may hold below symbols_dir
SymCandidates ==
  {Node(Below(symbols_dir, sub, <<"a", ".", "k", "i", "c", "a", "d", "_", "s", "y", "m">>), FALSE) : sub \in ScanSubdirs}
  \cup {Node(Below(symbols_dir, <<>>, <<"A", ".", "k", "i", "c", "a", "d", "_", "s", "y", "m">>), FALSE),
        Node(Below(symbols_dir, <<>>, <<"a", ".", "p", "r", "e", "t", "t", "y">>), FALSE)}

\* the entries a tree of the model may hold below footprints_dir
FpCandidates ==
  {Node(Below(footprints_dir, <<>>, <<"a", ".", "p", "r", "e", "t", "t", "y">>), TRUE),
   Node(Below(footprints_dir, <<<<"x">>>>, <<"a", ".", "p", "r", "e", "t", "t", "y">>), TRUE),
   Node(Below(footprints_dir, <<>>, <<"f", "o", "o", "t", "p", "r", "i", "n", "t", "s", ".", "p", "r", "e", "t", "t", "y">>), TRUE),
   Node(Below(footprints_dir, <<>>, <<"A", ".", "p", "r", "e", "t", "t", "y">>), FALSE)}

\* the trees of the model: the scan directories that exist, and at most
\* MaxEntries entries below them
Trees ==
  LET Pick(cands) == {S \in SUBSET cands : Cardinality(S) <= MaxEntries}
  IN {{Node(symbols_dir, TRUE), Node(footprints_dir, TRUE)} \cup S :
         S \in Pick(SymCandidates \cup FpCandidates)}
     \cup {{Node(symbols_dir, TRUE)} \cup S : S \in Pick(SymCandidates)}
     \cup {{Node(footprints_dir, TRUE)} \cup S : S \in Pick(FpCandidates)}
     \cup {{}}

\* p.exists()
Exists(p) == \E n \in tree : n.path = p

\* p.is_dir()
IsDir(p) == \E n \in tree : n.path = p /\ n.is_dir

\* the paths dir.rglob("*" + suffix) yields: every entry below dir whose name
\* ends with suffix
RGlob(dir, suffix) ==
  {n.path : n \in {m \in tree : /\ m.path # dir
                                /\ IsRelativeTo(m.path, dir)
                                /\ EndsWith(Name(m.path), suffix)}}

\* the orders in which an enumeration can yield the elements of S
Orders(S) ==
  {s \in [1..Cardinality(S) -> S] : \A i, j \in 1..Cardinality(S) : s[i] = s[j] => i = j}

(***************************************************************************)
(* sorted(..., key=lambda p: p.as_posix().lower())                         *)
(***************************************************************************)
SortKeyCaseSensitive(p) == AsPosix(p)

\* lambda p: p.as_posix().lower()
SortKey(p) == Lower(AsPosix(p))

\* the insertion of p into a sorted list after every element whose key is
\* not greater: the sort is stable
RECURSIVE Insert(_, _)
Insert(p, sorted) ==
  IF sorted = <<>> THEN <<p>>
  ELSE IF StrLess(SortKey(p), SortKey(sorted[1])) THEN <<p>> \o sorted
  ELSE <<sorted[1]>> \o Insert(p, Tail(sorted))

\* sorted(listing, key=SortKey)
RECURSIVE Sorted(_)
Sorted(listing) ==
  IF listing = <<>> THEN <<>>
  ELSE Insert(listing[Len(listing)], Sorted(SubSeq(listing, 1, Len(listing) - 1)))

(***************************************************************************)
(* generate_sym_lib_table, generate_fp_lib_table                           *)
(***************************************************************************)
Raise(type, msg) == [raised |-> Some([type |-> type, msg |-> msg]), listed |-> <<>>, content |-> <<>>]

Return(listed, content) == [raised |-> None, listed |-> listed, content |-> content]

\* uri = f"${{KIPRJMOD}}/{rel_path}"
Uri(p, root) == <<"$", "{", "K", "I", "P", "R", "J", "M", "O", "D", "}", "/">> \o AsPosix(RelativeTo(p, root))

\* the elements of a list
Range(seq) == {seq[i] : i \in 1..Len(seq)}

\* lambda p: p.stem
SymBase(p) == Stem(p)

\* lambda p: p.name[:-len(".pretty")] if p.name.endswith(".pretty") else p.name
FpBase(p) ==
  IF EndsWith(Name(p), <<".", "p", "r", "e", "t", "t", "y">>)
  THEN SubSeq(Name(p), 1, Len(Name(p)) - Len(<<".", "p", "r", "e", "t", "t", "y">>))
  ELSE Name(p)

\* the library lines of the discovered entries, in the order of the list
EntryLines(entries, name_map, root) ==
  [i \in 1..Len(entries) |-> make_lib_line(name_map[entries[i]], Uri(entries[i], root))]

\* "\n".join(lines) + "\n"
Document(lines) == Join(<<"\n">>, lines) \o <<"\n">>

\* the errors the walk of the tree may raise
WalkFaults == {None, Some("PermissionError")}

PermissionDenied == <<"[", "E", "r", "r", "n", "o", " ", "1", "3", "]", " ", "P", "e", "r", "m", "i", "s", "s", "i", "o", "n", " ", "d", "e", "n", "i", "e", "d">>

\* listing: the order in which rglob yields the entries; fault: the error
\* the walk raises, if any
generate_sym_lib_table(root, dir, listing, fault) ==
  IF ~Exists(dir)
  THEN Raise("FileNotFoundError", <<"S", "y", "m", "b", "o", "l", "s", " ", "d", "i", "r", "e", "c", "t", "o", "r", "y", " ", "n", "o", "t", " ", "f", "o", "u", "n", "d", ":", " ">> \o AsPosix(dir))
  ELSE IF fault # None THEN Raise(Get(fault), PermissionDenied)
  ELSE LET syms     == Sorted(listing)
           name_map == make_unique_names(syms, [p \in Range(syms) |-> SymBase(p)], root)
           lines    == <<RStripNewline(SYM_HEADER)>>
                       \o EntryLines(syms, name_map, root)
                       \o <<RStripNewline(FOOTER)>>
       IN Return(syms, Document(lines))

\* the line of the base footprints directory
BaseLine(root, dir) == make_lib_line(<<"f", "o", "o", "t", "p", "r", "i", "n", "t", "s">>, Uri(dir, root))

\* generate_fp_lib_table with the base entry appended after the discovered ones
generate_fp_base_last(root, dir, listing, fault) ==
  IF ~Exists(dir)
  THEN Raise("FileNotFoundError", <<"F", "o", "o", "t", "p", "r", "i", "n", "t", "s", " ", "d", "i", "r", "e", "c", "t", "o", "r", "y", " ", "n", "o", "t", " ", "f", "o", "u", "n", "d", ":", " ">> \o AsPosix(dir))
  ELSE IF fault # None THEN Raise(Get(fault), PermissionDenied)
  ELSE LET dirs     == Sorted(SelectSeq(listing, IsDir))
           name_map == make_unique_names(dirs, [p \in Range(dirs) |-> FpBase(p)], root)
           lines    == <<RStripNewline(FP_HEADER)>>
                       \o EntryLines(dirs, name_map, root)
                       \o <<BaseLine(root, dir)>>
                       \o <<RStripNewline(FOOTER)>>
       IN Return(dirs, Document(lines))

generate_fp_lib_table(root, dir, listing, fault) ==
  IF ~Exists(dir)
  THEN Raise("FileNotFoundError", <<"F", "o", "o", "t", "p", "r", "i", "n", "t", "s", " ", "d", "i", "r", "e", "c", "t", "o", "r", "y", " ", "n", "o", "t", " ", "f", "o", "u", "n", "d", ":", " ">> \o AsPosix(dir))
  ELSE IF fault # None THEN Raise(Get(fault), PermissionDenied)
  ELSE LET dirs     == Sorted(SelectSeq(listing, IsDir))
           name_map == make_unique_names(dirs, [p \in Range(dirs) |-> FpBase(p)], root)
           lines    == <<RStripNewline(FP_HEADER)>>
                       \o <<BaseLine(root, dir)>>
                       \o EntryLines(dirs, name_map, root)
                       \o <<RStripNewline(FOOTER)>>
       IN Return(dirs, Document(lines))

(***************************************************************************)
(* main                                                                    *)
(***************************************************************************)
\* the values of --sym-out and --fp-out the model draws from: the default of
\* each, and for --fp-out also the name of the symbol table
SymOutNames == {<<"s", "y", "m", "-", "l", "i", "b", "-", "t", "a", "b", "l", "e">>}
FpOutNames == {<<"f", "p", "-", "l", "i", "b", "-", "t", "a", "b", "l", "e">>, <<"s", "y", "m", "-", "l", "i", "b", "-", "t", "a", "b", "l", "e">>}

OutPaths == {Child(project_root, n) : n \in SymOutNames \cup FpOutNames}

\* ap.parse_args()
ArgSets == [sym_out : SymOutNames, fp_out : FpOutNames, dry_run : BOOLEAN]

sym_out_path == Child(project_root, args.sym_out)
fp_out_path == Child(project_root, args.fp_out)

\* what an output file that exists before the first run holds
OldContent == <<"(", "o", "l", "d", ")", "\n">>

CatchesOnlyNotFound(type) == type = "FileNotFoundError"

\* except Exception: the classes of the model's errors that derive from Exception
Catches(type) == type \in {"FileNotFoundError", "PermissionError", "ValueError"}

Init ==
  /\ tree \in Trees
  /\ args \in ArgSets
  /\ pc = "start"
  /\ sym_files = None /\ pretty_dirs = None
  /\ sym_content = None /\ fp_content = None
  /\ exc = None
  /\ files \in [OutPaths -> {None, Some(OldContent)}]
  /\ files0 = files
  /\ stdout = <<>> /\ stderr = <<>>
  /\ exit_status = None
  /\ runs = 1
  /\ last_sym = None /\ last_fp = None
  /\ esc_pc = "off" /\ esc_in = <<>> /\ esc_out = <<>> /\ esc_line = <<>>

EscVars == <<esc_pc, esc_in, esc_out, esc_line>>
RunVars == <<tree, args, files0, runs, last_sym, last_fp>>

\* line 173 followed at once by line 189: the symbol table is written before
\* the footprint table is generated
GenerateSymThenWrite ==
  /\ pc = "start"
  /\ \E listing \in Orders(RGlob(symbols_dir, <<".", "k", "i", "c", "a", "d", "_", "s", "y", "m">>)), fault \in WalkFaults :
       LET r == generate_sym_lib_table(project_root, symbols_dir, listing, fault)
       IN IF r.raised # None
          THEN /\ exc' = r.raised
               /\ pc' = "except"
               /\ UNCHANGED <<sym_files, sym_content, files>>
          ELSE /\ sym_files' = Some(r.listed)
               /\ sym_content' = Some(r.content)
               /\ files' = [files EXCEPT ![sym_out_path] = Some(r.content)]
               /\ pc' = "sym_generated"
               /\ exc' = exc
  /\ UNCHANGED <<pretty_dirs, fp_content, stdout, stderr, exit_status>>
  /\ UNCHANGED RunVars /\ UNCHANGED EscVars

\* line 173
GenerateSym ==
  /\ pc = "start"
  /\ \E listing \in Orders(RGlob(symbols_dir, <<".", "k", "i", "c", "a", "d", "_", "s", "y", "m">>)), fault \in WalkFaults :
       LET r == generate_sym_lib_table(project_root, symbols_dir, listing, fault)
       IN IF r.raised # None
          THEN /\ exc' = r.raised
               /\ pc' = "except"
               /\ UNCHANGED <<sym_files, sym_content>>
          ELSE /\ sym_files' = Some(r.listed)
               /\ sym_content' = Some(r.content)
               /\ pc' = "sym_generated"
               /\ exc' = exc
  /\ UNCHANGED <<pretty_dirs, fp_content, files, stdout, stderr, exit_status>>
  /\ UNCHANGED RunVars /\ UNCHANGED EscVars

\* line 174
GenerateFp ==
  /\ pc = "sym_generated"
  /\ \E listing \in Orders(RGlob(footprints_dir, <<".", "p", "r", "e", "t", "t", "y">>)), fault \in WalkFaults :
       LET r == generate_fp_lib_table(project_root, footprints_dir, listing, fault)
       IN IF r.raised # None
          THEN /\ exc' = r.raised
               /\ pc' = "except"
               /\ UNCHANGED <<pretty_dirs, fp_content>>
          ELSE /\ pretty_dirs' = Some(r.listed)
               /\ fp_content' = Some(r.content)
               /\ pc' = "generated"
               /\ exc' = exc
  /\ UNCHANGED <<sym_files, sym_content, files, stdout, stderr, exit_status>>
  /\ UNCHANGED RunVars /\ UNCHANGED EscVars

\* lines 175-177
Except ==
  /\ pc = "except"
  /\ IF Catches(Get(exc).type)
     THEN /\ stderr' = Append(stderr, <<"E", "r", "r", "o", "r", ":", " ">> \o Get(exc).msg)
          /\ exit_status' = Some(1)
          /\ pc' = "done"
     ELSE /\ pc' = "uncaught"
          /\ UNCHANGED <<stderr, exit_status>>
  /\ UNCHANGED <<sym_files, pretty_dirs, sym_content, fp_content, exc, files, stdout>>
  /\ UNCHANGED RunVars /\ UNCHANGED EscVars

\* lines 182-187 without the return: the preview falls through to the writes
DryRunFallsThrough ==
  /\ pc = "generated"
  /\ args.dry_run
  /\ stderr' = stderr \o <<<<"[", "d", "r", "y", "-", "r", "u", "n", "]", " ", "w", "o", "u", "l", "d", " ", "w", "r", "i", "t", "e", ":", " ">> \o AsPosix(sym_out_path),
                           Get(sym_content),
                           <<"[", "d", "r", "y", "-", "r", "u", "n", "]", " ", "w", "o", "u", "l", "d", " ", "w", "r", "i", "t", "e", ":", " ">> \o AsPosix(fp_out_path),
                           Get(fp_content)>>
  /\ files' = [files EXCEPT ![sym_out_path] = sym_content]
  /\ pc' = "sym_written"
  /\ UNCHANGED <<sym_files, pretty_dirs, sym_content, fp_content, exc, stdout, exit_status>>
  /\ UNCHANGED RunVars /\ UNCHANGED EscVars

\* lines 182-187
DryRun ==
  /\ pc = "generated"
  /\ args.dry_run
  /\ stderr' = stderr \o <<<<"[", "d", "r", "y", "-", "r", "u", "n", "]", " ", "w", "o", "u", "l", "d", " ", "w", "r", "i", "t", "e", ":", " ">> \o AsPosix(sym_out_path),
                           Get(sym_content),
                           <<"[", "d", "r", "y", "-", "r", "u", "n", "]", " ", "w", "o", "u", "l", "d", " ", "w", "r", "i", "t", "e", ":", " ">> \o AsPosix(fp_out_path),
                           Get(fp_content)>>
  /\ exit_status' = Some(0)
  /\ pc' = "done"
  /\ UNCHANGED <<sym_files, pretty_dirs, sym_content, fp_content, exc, files, stdout>>
  /\ UNCHANGED RunVars /\ UNCHANGED EscVars

\* line 189
WriteSym ==
  /\ pc = "generated"
  /\ ~args.dry_run
  /\ files' = [files EXCEPT ![sym_out_path] = sym_content]
  /\ pc' = "sym_written"
  /\ UNCHANGED <<sym_files, pretty_dirs, sym_content, fp_content, exc, stdout, stderr,
                 exit_status>>
  /\ UNCHANGED RunVars /\ UNCHANGED EscVars

\* lines 190-194
WriteFp ==
  /\ pc = "sym_written"
  /\ files' = [files EXCEPT ![fp_out_path] = fp_content]
  /\ stdout' = stdout \o <<<<"G", "e", "n", "e", "r", "a", "t", "e", "d", " ">> \o AsPosix(sym_out_path),
                           <<"G", "e", "n", "e", "r", "a", "t", "e", "d", " ">> \o AsPosix(fp_out_path)>>
  /\ exit_status' = Some(0)
  /\ pc' = "done"
  /\ UNCHANGED <<sym_files, pretty_dirs, sym_content, fp_content, exc, stderr>>
  /\ UNCHANGED RunVars /\ UNCHANGED EscVars

\* The same command is run again on the unchanged tree.  A run that raised has
\* written nothing, so running again after it is running from the state it
\* started in: only a run that returned 0 is followed by another one.
Rerun ==
  /\ pc = "done"
  /\ exit_status = Some(0)
  /\ runs < MaxRuns
  /\ runs' = runs + 1
  /\ last_sym' = sym_content /\ last_fp' = fp_content
  /\ files0' = files
  /\ pc' = "start"
  /\ sym_files' = None /\ pretty_dirs' = None
  /\ sym_content' = None /\ fp_content' = None
  /\ exc' = None
  /\ stdout' = <<>> /\ stderr' = <<>>
  /\ exit_status' = None
  /\ UNCHANGED <<tree, args, files>> /\ UNCHANGED EscVars

Next ==
  \/ GenerateSym
  \/ GenerateFp
  \/ Except
  \/ DryRun
  \/ WriteSym
  \/ WriteFp
  \/ Rerun

Spec == Init /\ [][Next]_vars

(***************************************************************************)
(* kicad_escape and make_lib_line on their own: the strings over an        *)
(* alphabet with the two escaped characters                                *)
(***************************************************************************)
EscAlphabet == {"a", "\"", "\\"}

RECURSIVE Strings(_)
Strings(n) ==
  IF n = 0 THEN {<<>>}
  ELSE LET shorter == Strings(n - 1)
       IN shorter \cup {Append(s, c) : s \in shorter, c \in EscAlphabet}

InitEscape ==
  /\ esc_pc = "input"
  /\ esc_in \in Strings(MaxLen)
  /\ esc_out = <<>> /\ esc_line = <<>>
  /\ tree = {}
  /\ args = [sym_out |-> <<"s", "y", "m", "-", "l", "i", "b", "-", "t", "a", "b", "l", "e">>, fp_out |-> <<"f", "p", "-", "l", "i", "b", "-", "t", "a", "b", "l", "e">>, dry_run |-> TRUE]
  /\ pc = "off"
  /\ sym_files = None /\ pretty_dirs = None
  /\ sym_content = None /\ fp_content = None
  /\ exc = None
  /\ files = [p \in OutPaths |-> None]
  /\ files0 = files
  /\ stdout = <<>> /\ stderr = <<>>
  /\ exit_status = None
  /\ runs = 1
  /\ last_sym = None /\ last_fp = None

MainVars == <<tree, args, pc, sym_files, pretty_dirs, sym_content, fp_content, exc, files,
              files0, stdout, stderr, exit_status, runs, last_sym, last_fp>>

\* line 50
Escape ==
  /\ esc_pc = "input"
  /\ esc_out' = kicad_escape(esc_in)
  /\ esc_pc' = "escaped"
  /\ UNCHANGED <<esc_in, esc_line>> /\ UNCHANGED MainVars

\* lines 54-58, with the string as the name and at the end of the uri
MakeLine ==
  /\ esc_pc = "escaped"
  /\ esc_line' = make_lib_line(esc_in, <<"$", "{", "K", "I", "P", "R", "J", "M", "O", "D", "}", "/">> \o esc_in)
  /\ esc_pc' = "line"
  /\ UNCHANGED <<esc_in, esc_out>> /\ UNCHANGED MainVars

NextEscape ==
  \/ Escape
  \/ MakeLine

SpecEscape == InitEscape /\ [][NextEscape]_vars

(***************************************************************************)
(* Reading a document back                                                 *)
(***************************************************************************)
StartsWith(s, prefix) == Len(s) >= Len(prefix) /\ SubSeq(s, 1, Len(prefix)) = prefix

\* the lines of a text, each without its "\n"
RECURSIVE Lines(_)
Lines(text) ==
  IF text = <<>> THEN <<>>
  ELSE LET nl == {i \in 1..Len(text) : text[i] = "\n"}
       IN IF nl = {} THEN <<text>>
          ELSE LET k == CHOOSE i \in nl : \A j \in nl : i <= j
               IN <<SubSeq(text, 1, k - 1)>> \o Lines(SubSeq(text, k + 1, Len(text)))

\* the position of the first unescaped quote of text at or after i
\* (Len(text) + 1 if there is none)
RECURSIVE ClosingQuote(_, _)
ClosingQuote(text, i) ==
  IF i > Len(text) THEN Len(text) + 1
  ELSE IF text[i] = "\"" THEN i
  ELSE IF text[i] = "\\" THEN ClosingQuote(text, i + 2)
  ELSE ClosingQuote(text, i + 1)

\* the string a reader gets from a quoted field whose content starts at i:
\* up to the first unescaped quote, each backslash giving the character after it
RECURSIVE ReadQuoted(_, _)
ReadQuoted(text, i) ==
  IF i > Len(text) \/ text[i] = "\"" THEN <<>>
  ELSE IF text[i] = "\\"
       THEN (IF i < Len(text) THEN <<text[i + 1]>> ELSE <<>>) \o ReadQuoted(text, i + 2)
       ELSE <<text[i]>> \o ReadQuoted(text, i + 1)

\* the quoted fields of a line, in order
RECURSIVE Fields(_, _)
Fields(text, i) ==
  IF i > Len(text) THEN <<>>
  ELSE IF text[i] = "\""
       THEN <<ReadQuoted(text, i + 1)>> \o Fields(text, ClosingQuote(text, i + 1) + 1)
       ELSE Fields(text, i + 1)

IsLibLine(line) == StartsWith(line, <<" ", " ", "(", "l", "i", "b", " ">>)

\* the library lines of a document
LibLines(doc) == SelectSeq(Lines(doc), IsLibLine)

\* the name and the uri a reader gets from a library line
NameOf(line) == Fields(line, 1)[1]
UriOf(line) == Fields(line, 1)[3]

\* the names of the library lines of a document, in order
NamesOf(doc) == [i \in 1..Len(LibLines(doc)) |-> NameOf(LibLines(doc)[i])]

PairwiseDistinct(seq) == \A i, j \in 1..Len(seq) : i # j => seq[i] # seq[j]

\* the states right after generate_sym_lib_table, generate_fp_lib_table returned
SymReturned == pc = "sym_generated" /\ sym_content # None
FpReturned == pc = "generated" /\ fp_content # None

\* the entries the two generations discover in the tree
FoundSyms == RGlob(symbols_dir, <<".", "k", "i", "c", "a", "d", "_", "s", "y", "m">>)
FoundDirs == {p \in RGlob(footprints_dir, <<".", "p", "r", "e", "t", "t", "y">>) : IsDir(p)}

\* the components of p below the project root
BelowRoot(p) == SubSeq(p.parts, Len(project_root.parts) + 1, Len(p.parts))

\* ${KIPRJMOD}/ and the components of p below the project root
ExpectedUri(p) == <<"$", "{", "K", "I", "P", "R", "J", "M", "O", "D", "}", "/">> \o Join(<<"/">>, BelowRoot(p))

\* the lower-cased POSIX string of the full path of p
PathKey(p) == [i \in 1..Len(AsPosix(p)) |-> LowerChar[AsPosix(p)[i]]]

\* the components of the parent directory of p below the project root, each
\* with "/" and "\" turned into "_", joined by "_"
ExpectedSuffix(p) ==
  LET dirs == SubSeq(BelowRoot(p), 1, Len(BelowRoot(p)) - 1)
      Clean(c) == [j \in 1..Len(c) |-> IF c[j] \in {"/", "\\"} THEN "_" ELSE c[j]]
  IN Join(<<"_">>, [i \in 1..Len(dirs) |-> Clean(dirs[i])])

\* the name of the i-th entry of the list: its base name if no earlier entry
\* has it, and else the base name, "_" and the suffix
ExpectedName(entries, bases, i) ==
  IF \E j \in 1..(i - 1) : bases[j] = bases[i]
  THEN bases[i] \o <<"_">> \o ExpectedSuffix(entries[i])
  ELSE bases[i]

\* the base names of the symbol files, of the footprint directories of a list
SymBases(entries) == [i \in 1..Len(entries) |-> SymBase(entries[i])]
FpBases(entries) == [i \in 1..Len(entries) |-> FpBase(entries[i])]

(***************************************************************************)
(* The claims                                                              *)
(***************************************************************************)

\* C1: in each document, the names assigned to the discovered entries (every
\* library line but the base footprints line) are pairwise distinct.
C1_AssignedNamesDistinct ==
  /\ SymReturned => PairwiseDistinct(NamesOf(Get(sym_content)))
  /\ FpReturned => PairwiseDistinct(Tail(NamesOf(Get(fp_content))))

\* C2: make_unique_names is an ordered fold over the sorted list: an entry with
\* no earlier entry of the same base name is named by its base name, and any
\* other by <base>_<suffix>, the suffix being its parent directory relative to
\* the project root with "/" and "\" replaced by "_".
C2_OrderedFold ==
  /\ SymReturned =>
       \A i \in 1..Len(Get(sym_files)) :
          NamesOf(Get(sym_content))[i] = ExpectedName(Get(sym_files), SymBases(Get(sym_files)), i)
  /\ FpReturned =>
       \A i \in 1..Len(Get(pretty_dirs)) :
          NamesOf(Get(fp_content))[i + 1] = ExpectedName(Get(pretty_dirs), FpBases(Get(pretty_dirs)), i)

\* C2, its case: two symbol files of the same base name, the first keeps the
\* base name and the second is named with the suffix of its directory.
C2_Witness ==
  /\ SymReturned
  /\ \E i, j \in 1..Len(Get(sym_files)) :
       /\ i < j
       /\ SymBase(Get(sym_files)[i]) = SymBase(Get(sym_files)[j])
       /\ NamesOf(Get(sym_content))[i] = <<"a">>
       /\ NamesOf(Get(sym_content))[j] = <<"a", "_", "k", "_", "s", "y", "m", "b", "o", "l", "s", "_", "x">>

\* C3: two runs on the unchanged tree return the same documents, whatever the
\* order in which the enumeration yields the entries.
C3_Deterministic ==
  /\ (sym_content # None /\ last_sym # None) => sym_content = last_sym
  /\ (fp_content # None /\ last_fp # None) => fp_content = last_fp

\* C4: the line right after the header of the footprint document is the base
\* entry, named "footprints" with the uri of footprints_dir, however many
\* directories were discovered; every library line of the symbol document is
\* the line of a discovered file.
C4_SyntheticFirst ==
  /\ FpReturned =>
       LET lines == Lines(Get(fp_content))
       IN /\ lines[1] = <<"(", "f", "p", "_", "l", "i", "b", "_", "t", "a", "b", "l", "e">>
          /\ lines[2] = <<" ", " ", "(", "v", "e", "r", "s", "i", "o", "n", " ", "7", ")">>
          /\ IsLibLine(lines[3])
          /\ NameOf(lines[3]) = <<"f", "o", "o", "t", "p", "r", "i", "n", "t", "s">>
          /\ UriOf(lines[3]) = <<"$", "{", "K", "I", "P", "R", "J", "M", "O", "D", "}", "/", "k", "/", "f", "o", "o", "t", "p", "r", "i", "n", "t", "s">>
          /\ Len(LibLines(Get(fp_content))) = 1 + Cardinality(FoundDirs)
  /\ SymReturned =>
       LET libs == LibLines(Get(sym_content))
       IN /\ Len(libs) = Cardinality(FoundSyms)
          /\ \A i \in 1..Len(libs) : \E p \in FoundSyms : UriOf(libs[i]) = ExpectedUri(p)

\* C4, its case: a footprint document with two discovered directories.
C4_Witness ==
  /\ FpReturned
  /\ Len(Get(pretty_dirs)) = 2
  /\ NameOf(Lines(Get(fp_content))[3]) = <<"f", "o", "o", "t", "p", "r", "i", "n", "t", "s">>

\* the lines are those of the entries, in the order of the list, which holds
\* every found entry once and is ascending in the lower-cased path
InListOrder(lines, entries, found) ==
  /\ Len(lines) = Len(entries)
  /\ Len(entries) = Cardinality(found)
  /\ {entries[i] : i \in 1..Len(entries)} = found
  /\ \A i \in 1..Len(entries) : UriOf(lines[i]) = ExpectedUri(entries[i])
  /\ \A i \in 1..(Len(entries) - 1) : ~StrLess(PathKey(entries[i + 1]), PathKey(entries[i]))

\* C5: the library lines of the discovered entries are in ascending order of
\* the lower-cased POSIX string of the full path, each entry once, in the order
\* of the list make_unique_names was given.
C5_SortedEntries ==
  /\ SymReturned => InListOrder(LibLines(Get(sym_content)), Get(sym_files), FoundSyms)
  /\ FpReturned => InListOrder(Tail(LibLines(Get(fp_content))), Get(pretty_dirs), FoundDirs)

\* C5, its case: three symbol files, one of them below the directory X, which
\* sorts after lower-case names only once lower-cased.
C5_Witness ==
  /\ SymReturned
  /\ Len(Get(sym_files)) = 3
  /\ \E i \in 2..3 : Get(sym_files)[i].parts[4] = <<"X">>

\* C6: when a scan directory is missing, no output file is written or
\* modified at any point of the run, no write is reached, and main ends with
\* the status 1 after one "Error: ..." message.
C6_AllOrNothing ==
  (~Exists(symbols_dir) \/ ~Exists(footprints_dir)) =>
     /\ files = files0
     /\ pc \in {"start", "sym_generated", "except", "done"}
     /\ pc = "done" =>
          /\ exit_status = Some(1)
          /\ Len(stderr) = 1
          /\ StartsWith(stderr[1], <<"E", "r", "r", "o", "r", ":", " ">>)

\* C6, its case: the symbol document was generated, the footprints directory
\* is missing, and main has returned.
C6_Witness ==
  /\ pc = "done"
  /\ sym_content # None
  /\ ~Exists(footprints_dir)
  /\ exit_status = Some(1)
  /\ stderr = <<<<"E", "r", "r", "o", "r", ":", " ", "F", "o", "o", "t", "p", "r", "i", "n", "t", "s", " ", "d", "i", "r", "e", "c", "t", "o", "r", "y", " ", "n", "o", "t", " ", "f", "o", "u", "n", "d", ":", " ", "/", "p", "/", "k", "/", "f", "o", "o", "t", "p", "r", "i", "n", "t", "s">>>>
  /\ files[sym_out_path] = Some(OldContent)

\* C7 as stated: after a preview the files are unchanged and the status is 0;
\* after a run without the flag both files hold exactly the generated documents.
C7_PreviewOrBothWritten ==
  (pc = "done" /\ exit_status = Some(0)) =>
     IF args.dry_run THEN files = files0
     ELSE /\ files[sym_out_path] = sym_content
          /\ files[fp_out_path] = fp_content

\* C7 as amended: after a preview the files are unchanged and the status is 0;
\* after a run without the flag the footprint table file holds the footprint
\* document, the symbol table file holds the symbol document unless both
\* options name the same file, and no other file is changed.
C7_PreviewOrLastWriteWins ==
  /\ (pc = "generated" /\ args.dry_run) => files = files0
  /\ (pc = "done" /\ sym_content # None /\ fp_content # None) =>
       /\ exit_status = Some(0)
       /\ IF args.dry_run THEN files = files0
          ELSE /\ files[fp_out_path] = fp_content
               /\ sym_out_path # fp_out_path => files[sym_out_path] = sym_content
               /\ \A p \in OutPaths \ {sym_out_path, fp_out_path} : files[p] = files0[p]

\* C7, its case: a run without the flag whose two options name the same file.
C7_Witness ==
  /\ pc = "done"
  /\ ~args.dry_run
  /\ sym_out_path = fp_out_path
  /\ files[fp_out_path] = fp_content
  /\ exit_status = Some(0)

\* C9 as stated: an error other than the missing directory is not turned into
\* the message and the status 1.
C9_OnlyNotFoundConverted ==
  (exc # None /\ Get(exc).type # "FileNotFoundError") => exit_status # Some(1)

\* C9 as amended: every error raised while generating the documents, the
\* missing directory and any other alike, is caught by main and turned into
\* the "Error: ..." message and the status 1; none leaves main uncaught.
C9_EveryErrorConverted ==
  exc # None =>
     /\ pc \in {"except", "done"}
     /\ pc = "done" =>
          /\ exit_status = Some(1)
          /\ stderr = <<<<"E", "r", "r", "o", "r", ":", " ">> \o Get(exc).msg>>

\* C9, its case: the walk raised PermissionError and main has returned 1.
C9_Witness ==
  /\ pc = "done"
  /\ exc # None
  /\ Get(exc).type = "PermissionError"
  /\ exit_status = Some(1)

\* C10: the names of all library lines of the footprint document, the base
\* entry "footprints" included, are pairwise distinct.
C10_FootprintNamesDistinct ==
  FpReturned => PairwiseDistinct(NamesOf(Get(fp_content)))

\* the string read character by character: each backslash doubled, each
\* quote preceded by a backslash
RECURSIVE EscapedCharwise(_)
EscapedCharwise(s) ==
  IF s = <<>> THEN <<>>
  ELSE (IF s[1] = "\\" THEN <<"\\", "\\">> ELSE IF s[1] = "\"" THEN <<"\\", "\"">> ELSE <<s[1]>>)
       \o EscapedCharwise(Tail(s))

\* C8: kicad_escape doubles each backslash and puts a backslash before each
\* quote, leaves no unescaped quote, and reading the quoted field of
\* make_lib_line up to the first unescaped quote gives the string back.
C8_EscapeRoundTrip ==
  /\ esc_pc \in {"escaped", "line"} =>
       /\ esc_out = EscapedCharwise(esc_in)
       /\ ClosingQuote(esc_out, 1) = Len(esc_out) + 1
       /\ ReadQuoted(esc_out \o <<"\"">>, 1) = esc_in
  /\ esc_pc = "line" =>
       Fields(esc_line, 1) = <<esc_in, <<"K", "i", "C", "a", "d">>, <<"$", "{", "K", "I", "P", "R", "J", "M", "O", "D", "}", "/">> \o esc_in, <<>>, <<>>>>

\* C8, its case: a string with a backslash right before a quote, escaped and
\* put into a line.
C8_Witness ==
  /\ esc_pc = "line"
  /\ esc_in = <<"a", "\\", "\"", "\\">>
  /\ esc_out = <<"a", "\\", "\\", "\\", "\"", "\\", "\\">>

====
